---- MODULE Spec2Model ----
(***************************************************************************)
(* State-machine model of the Sudoku game of nabobery/sudokuSolver: the    *)
(* backtracking SudokuSolver, the conflict / completion checks, the        *)
(* comparison functions (compareBoards, getValidationStats, getHint), the  *)
(* SudokuBoard component's handlers and effects, and fetchPuzzle.          *)
(* Boards hold strings as in the code: "." is an empty cell, "1".."9" a    *)
(* digit, and "" the value a cleared input leaves behind.                  *)
(***************************************************************************)
EXTENDS Integers, Sequences, FiniteSets

VARIABLES board, board0, rows, cols, blocks, stack, pc, retval, result,
          touched, log, calls, reused, conflicts, completion, upc,
          fnArgs, fnOut,
          ui, initialBoard, timers, fetches, js, last,
          net, fpc, fres

vars == <<board, board0, rows, cols, blocks, stack, pc, retval, result,
          touched, log, calls, reused, conflicts, completion, upc,
          fnArgs, fnOut,
          ui, initialBoard, timers, fetches, js, last,
          net, fpc, fres>>

solverVars == <<board0, rows, cols, blocks, stack, pc, retval, result,
                touched, log, calls, reused>>

utilVars == <<conflicts, completion, upc>>

fnVars == <<fnArgs, fnOut>>

\* the SudokuBoard component: its React state (ui), its initialBoard prop,
\* the pending solve timers and fetches, the callback that is running
\* (js), and the operation that ran last with the message it showed
uiVars == <<ui, initialBoard, timers, fetches, js, last>>

\* one call of fetchPuzzle: what the network delivers (net), where the
\* call is (fpc) and what its promise settled with (fres)
fetchVars == <<net, fpc, fres>>

\* the state outside the solver and the two checks
restVars == <<fnVars, uiVars, fetchVars>>

----------------------------------------------------------------------------
(* Dimensions and encodings *)

N == 9

BlockSize == 3

NaN == 0 - 1

Idx == 0 .. (N - 1)

DigitStr == <<"1", "2", "3", "4", "5", "6", "7", "8", "9">>

Digits == {DigitStr[i] : i \in 1 .. N}

\* num.toString() for the loop variable num in 1..9
ToString(num) == DigitStr[num]

\* parseInt(s): the digit for "1".."9", NaN for anything else ("" included)
ParseInt(s) == IF \E i \in 1 .. N : DigitStr[i] = s
               THEN CHOOSE i \in 1 .. N : DigitStr[i] = s
               ELSE NaN

\* Math.floor(row / 3) * 3 + Math.floor(col / 3)
BlockIndex(row, col) == (row \div BlockSize) * BlockSize + (col \div BlockSize)

\* a board literal written as 9 strings-of-cells becomes board[row][col]
MkBoard(lit) == [r \in Idx |-> [c \in Idx |-> lit[r + 1][c + 1]]]

\* the fallback puzzle of fetchPuzzle
FallbackBoard ==
  MkBoard(<< <<"5", "3", ".", ".", "7", ".", ".", ".", ".">>,
             <<"6", ".", ".", "1", "9", "5", ".", ".", ".">>,
             <<".", "9", "8", ".", ".", ".", ".", "6", ".">>,
             <<"8", ".", ".", ".", "6", ".", ".", ".", "3">>,
             <<"4", ".", ".", "8", ".", "3", ".", ".", "1">>,
             <<"7", ".", ".", ".", "2", ".", ".", ".", "6">>,
             <<".", "6", ".", ".", ".", ".", "2", "8", ".">>,
             <<".", ".", ".", "4", "1", "9", ".", ".", "5">>,
             <<".", ".", ".", ".", "8", ".", ".", "7", "9">> >>)

\* Array(9).fill(null).map(() => Array(9).fill("."))
EmptyBoard == [r \in Idx |-> [c \in Idx |-> "."]]

----------------------------------------------------------------------------
(* Input boards *)

\* the completed grid of the fallback puzzle
SolvedGrid ==
  MkBoard(<< <<"5", "3", "4", "6", "7", "8", "9", "1", "2">>,
             <<"6", "7", "2", "1", "9", "5", "3", "4", "8">>,
             <<"1", "9", "8", "3", "4", "2", "5", "6", "7">>,
             <<"8", "5", "9", "7", "6", "1", "4", "2", "3">>,
             <<"4", "2", "6", "8", "5", "3", "7", "9", "1">>,
             <<"7", "1", "3", "9", "2", "4", "8", "5", "6">>,
             <<"9", "6", "1", "5", "3", "7", "2", "8", "4">>,
             <<"2", "8", "7", "4", "1", "9", "6", "3", "5">>,
             <<"3", "4", "5", "2", "8", "6", "1", "7", "9">> >>)

MaxHoles == 4

\* cells that may be blanked; the first four form a rectangle 1 3 / 3 1,
\* so blanking them leaves two valid completions
HoleCells == {<<3, 5>>, <<3, 8>>, <<4, 5>>, <<4, 8>>, <<0, 3>>, <<0, 4>>}

\* one cell may be overwritten (a wrong or cleared entry)
OverCells == {<<3, 0>>}

\* "8" is the cell's own value: the grid is then only blanked
OverVals == {"", "1", "3", "8"}

SetCell(b, r, c, v) == [b EXCEPT ![r][c] = v]

Punch(b, H) == [r \in Idx |-> [c \in Idx |->
                  IF <<r, c>> \in H THEN "." ELSE b[r][c]]]

SolverInputs ==
  {FallbackBoard} \cup
  { SetCell(Punch(SolvedGrid, H), p[1], p[2], v) :
      H \in {X \in SUBSET HoleCells : Cardinality(X) <= MaxHoles},
      p \in OverCells, v \in OverVals }

----------------------------------------------------------------------------
(* SudokuSolver *)

\* constructor: Array.from({ length: 9 }, () => Array(10).fill(false))
NewTable == [i \in Idx |-> [j \in 0 .. N |-> FALSE]]

\* arr[i][num] = val; an index that is not 0..9 adds a property that no
\* later read by a digit index sees
SetFlag(arr, i, num, val) ==
  IF num \in 0 .. N THEN [arr EXCEPT ![i][num] = val] ELSE arr

\* variant: the tables are not cleared before the marking
ResetTableSkipped(arr) == arr

\* first loop of initializeTracking: every flag false
ResetTable(arr) == [i \in Idx |-> [j \in 0 .. N |-> FALSE]]

\* the index of the table row that cell (i, j) marks:
\* rows[i], cols[j] or blocks[blockIndex]
UnitOf(unit, i, j) ==
  CASE unit = "row" -> i
    [] unit = "col" -> j
    [] OTHER -> BlockIndex(i, j)

\* second loop of initializeTracking: every cell that is not "." sets
\* arr[unit of the cell][parseInt(cell)] (the writes all store true, so the
\* outcome of the loop is the union of the flags it sets)
MarkExisting(arr, b, unit) ==
  [u \in Idx |-> [d \in 0 .. N |->
     \/ arr[u][d]
     \/ \E i \in Idx, j \in Idx :
          /\ UnitOf(unit, i, j) = u
          /\ b[i][j] # "."
          /\ ParseInt(b[i][j]) = d]]

initializeTracking(arr, b, unit) == MarkExisting(ResetTable(arr), b, unit)

\* variant: the row table is not consulted
CanPlaceNoRow(row, col, num) ==
  /\ ~cols[col][num]
  /\ ~blocks[BlockIndex(row, col)][num]

\* the guard of the placement in solveHelper
CanPlace(row, col, num) ==
  /\ ~rows[row][num]
  /\ ~cols[col][num]
  /\ ~blocks[BlockIndex(row, col)][num]

\* variant: the blank string is taken for an empty cell as well
IsFilledBlankToo(v) == v # "." /\ v # ""

\* board[row][col] !== "."
IsFilled(v) == v # "."

\* for (let num = 1; ...
FirstNum == 1

\* ...; num <= 9; ...
LastNum == 9

Frame(row, col, num) == [row |-> row, col |-> col, num |-> num]

Top == stack[Len(stack)]

Pop == SubSeq(stack, 1, Len(stack) - 1)

SetTopNum(num) == [stack EXCEPT ![Len(stack)].num = num]

\* solve(board): initializeTracking, then solveHelper(0, 0, board)
Solve ==
  /\ pc = "idle"
  /\ board0' = board
  /\ rows' = initializeTracking(rows, board, "row")
  /\ cols' = initializeTracking(cols, board, "col")
  /\ blocks' = initializeTracking(blocks, board, "block")
  /\ stack' = <<Frame(0, 0, 0)>>
  /\ pc' = "enter"
  /\ touched' = FALSE
  /\ UNCHANGED <<board, retval, result, log, calls, reused, utilVars, restVars>>

\* if (row === 9) return true
BaseCase ==
  /\ pc = "enter"
  /\ Top.row = N
  /\ stack' = Pop
  /\ retval' = TRUE
  /\ pc' = "ret"
  /\ UNCHANGED <<board, board0, rows, cols, blocks, result, touched, log,
                 calls, reused, utilVars, restVars>>

\* if (col === 9) return this.solveHelper(row + 1, 0, board)
NextRow ==
  /\ pc = "enter"
  /\ Top.row # N
  /\ Top.col = N
  /\ stack' = Append(stack, Frame(Top.row + 1, 0, 0))
  /\ UNCHANGED <<board, board0, rows, cols, blocks, pc, retval, result,
                 touched, log, calls, reused, utilVars, restVars>>

\* if (board[row][col] !== ".") return this.solveHelper(row, col + 1, board)
SkipFilled ==
  /\ pc = "enter"
  /\ Top.row # N
  /\ Top.col # N
  /\ IsFilled(board[Top.row][Top.col])
  /\ stack' = Append(stack, Frame(Top.row, Top.col + 1, 0))
  /\ UNCHANGED <<board, board0, rows, cols, blocks, pc, retval, result,
                 touched, log, calls, reused, utilVars, restVars>>

\* an empty cell: the for loop starts
EnterLoop ==
  /\ pc = "enter"
  /\ Top.row # N
  /\ Top.col # N
  /\ ~IsFilled(board[Top.row][Top.col])
  /\ stack' = SetTopNum(FirstNum)
  /\ pc' = "loop"
  /\ UNCHANGED <<board, board0, rows, cols, blocks, retval, result, touched,
                 log, calls, reused, utilVars, restVars>>

\* the digit is free in row, column and block: place it and recurse
Place ==
  /\ pc = "loop"
  /\ Top.num <= LastNum
  /\ CanPlace(Top.row, Top.col, Top.num)
  /\ board' = SetCell(board, Top.row, Top.col, ToString(Top.num))
  /\ rows' = SetFlag(rows, Top.row, Top.num, TRUE)
  /\ cols' = SetFlag(cols, Top.col, Top.num, TRUE)
  /\ blocks' = SetFlag(blocks, BlockIndex(Top.row, Top.col), Top.num, TRUE)
  /\ stack' = Append(stack, Frame(Top.row, Top.col + 1, 0))
  /\ pc' = "enter"
  /\ touched' = TRUE
  /\ UNCHANGED <<board0, retval, result, log, calls, reused, utilVars, restVars>>

\* variant: the loop variable is not advanced
NextNumSame(num) == num

\* ...; num++
NextNum(num) == num + 1

\* the digit is taken: next iteration
Reject ==
  /\ pc = "loop"
  /\ Top.num <= LastNum
  /\ ~CanPlace(Top.row, Top.col, Top.num)
  /\ stack' = SetTopNum(NextNum(Top.num))
  /\ UNCHANGED <<board, board0, rows, cols, blocks, pc, retval, result,
                 touched, log, calls, reused, utilVars, restVars>>

\* the loop ran out of digits: return false
Exhausted ==
  /\ pc = "loop"
  /\ Top.num > LastNum
  /\ stack' = Pop
  /\ retval' = FALSE
  /\ pc' = "ret"
  /\ UNCHANGED <<board, board0, rows, cols, blocks, result, touched, log,
                 calls, reused, utilVars, restVars>>

\* "return this.solveHelper(...)": the caller returns what the callee did
ReturnTail ==
  /\ pc = "ret"
  /\ Len(stack) > 0
  /\ Top.num = 0
  /\ stack' = Pop
  /\ UNCHANGED <<board, board0, rows, cols, blocks, pc, retval, result,
                 touched, log, calls, reused, utilVars, restVars>>

\* if (this.solveHelper(row, col + 1, board)) return true
ReturnSuccess ==
  /\ pc = "ret"
  /\ Len(stack) > 0
  /\ Top.num # 0
  /\ retval
  /\ stack' = Pop
  /\ UNCHANGED <<board, board0, rows, cols, blocks, pc, retval, result,
                 touched, log, calls, reused, utilVars, restVars>>

\* variant: the backtrack step leaves the digit on the board
UndoneBoardKept(b, row, col) == b

\* the cell written by the backtrack step
UndoneBoard(b, row, col) == SetCell(b, row, col, ".")

\* variant: the backtrack step leaves the flag set
UndoneFlagKept(arr, i, num) == arr

\* the flag written by the backtrack step
UndoneFlag(arr, i, num) == SetFlag(arr, i, num, FALSE)

\* Backtrack: remove number and unmark, then num++
Backtrack ==
  /\ pc = "ret"
  /\ Len(stack) > 0
  /\ Top.num # 0
  /\ ~retval
  /\ board' = UndoneBoard(board, Top.row, Top.col)
  /\ rows' = UndoneFlag(rows, Top.row, Top.num)
  /\ cols' = UndoneFlag(cols, Top.col, Top.num)
  /\ blocks' = UndoneFlag(blocks, BlockIndex(Top.row, Top.col), Top.num)
  /\ stack' = SetTopNum(NextNum(Top.num))
  /\ pc' = "loop"
  /\ UNCHANGED <<board0, retval, result, touched, log, calls, reused, utilVars, restVars>>

\* solve returns the value of solveHelper(0, 0, board)
Finish ==
  /\ pc = "ret"
  /\ Len(stack) = 0
  /\ result' = retval
  /\ pc' = "done"
  /\ log' = log \cup {[n |-> calls, reused |-> reused, in |-> board0,
                        res |-> retval, out |-> board]}
  /\ UNCHANGED <<board, board0, rows, cols, blocks, stack, retval, touched,
                 calls, reused, utilVars, restVars>>

SolverStep ==
  \/ Solve
  \/ BaseCase
  \/ NextRow
  \/ SkipFilled
  \/ EnterLoop
  \/ Place
  \/ Reject
  \/ Exhausted
  \/ ReturnTail
  \/ ReturnSuccess
  \/ Backtrack
  \/ Finish

InitSolver ==
  /\ board0 = EmptyBoard
  /\ rows = NewTable
  /\ cols = NewTable
  /\ blocks = NewTable
  /\ stack = <<>>
  /\ pc = "idle"
  /\ retval = FALSE
  /\ result = FALSE
  /\ touched = FALSE
  /\ log = {}
  /\ calls = 1
  /\ reused = FALSE

InitUtil ==
  /\ conflicts = <<>>
  /\ completion = FALSE
  /\ upc = {}

\* Array(9).fill(null).map(() => Array(9).fill(false))
NoGivens == [i \in Idx |-> [j \in Idx |-> FALSE]]

NoArgs == [current |-> EmptyBoard, solved |-> EmptyBoard, given |-> NoGivens]

NoOut == [fn |-> "none"]

\* no comparison function has been called
InitFnsIdle ==
  /\ fnArgs = NoArgs
  /\ fnOut = NoOut

\* the useState initial values, with no initialBoard
NewState ==
  [board |-> EmptyBoard,
   originalCells |-> NoGivens,
   originalBoard |-> <<>>,
   solvedBoard |-> <<>>,
   showValidation |-> FALSE,
   validationStats |-> <<>>,
   isCompleted |-> FALSE,
   hasWon |-> FALSE,
   showCompletionModal |-> FALSE,
   isLoading |-> FALSE,
   isSolving |-> FALSE]

\* the last operation: its number and name, whether it called onComplete,
\* the message it showed, and how often onComplete has been called since
\* the puzzle on the board was put there (fired)
NoOp ==
  [n |-> 0, op |-> "none", onComplete |-> FALSE, message |-> "", fired |-> 0]

\* no component is mounted
InitUiIdle ==
  /\ ui = NewState
  /\ initialBoard = <<>>
  /\ timers = <<>>
  /\ fetches = 0
  /\ js = "none"
  /\ last = NoOp

\* fetchPuzzle has not been called
InitFetchIdle ==
  /\ net = [kind |-> "none"]
  /\ fpc = "idle"
  /\ fres = <<>>

InitRest == InitFnsIdle /\ InitUiIdle /\ InitFetchIdle

Init ==
  /\ board \in SolverInputs
  /\ InitSolver
  /\ InitUtil
  /\ InitRest

Next == SolverStep

Spec == Init /\ [][Next]_vars

\* solve is one synchronous call: once entered, it runs until it returns
SpecTerminates == Init /\ [][Next]_vars /\ WF_vars(Next)

----------------------------------------------------------------------------
(* Repeated calls: solveSudoku builds a new SudokuSolver for every call,   *)
(* while a caller of the exported class may call solve again on the same   *)
(* instance, whose tables then still hold what the last call left          *)

MaxCalls == 3

\* blanked cells of the boards used for repeated calls
ReuseHoles == {{<<3, 5>>, <<3, 8>>},
               {<<3, 5>>, <<3, 8>>, <<4, 5>>, <<4, 8>>}}

\* (3, 0) keeps its "8" or holds a "3" that row 3 already needs elsewhere
ReuseVals == {"3", "8"}

ReuseInputs == {SetCell(Punch(SolvedGrid, H), 3, 0, v) :
                  H \in ReuseHoles, v \in ReuseVals}

\* solver.solve(copy) on the instance used before
ReuseCall ==
  /\ pc = "done"
  /\ calls < MaxCalls
  /\ board' \in ReuseInputs
  /\ pc' = "idle"
  /\ calls' = calls + 1
  /\ reused' = TRUE
  /\ UNCHANGED <<board0, rows, cols, blocks, stack, retval, result, touched,
                 log, utilVars, restVars>>

\* solveSudoku(copy): const solver = new SudokuSolver()
FreshCall ==
  /\ pc = "done"
  /\ calls < MaxCalls
  /\ board' \in ReuseInputs
  /\ rows' = NewTable
  /\ cols' = NewTable
  /\ blocks' = NewTable
  /\ pc' = "idle"
  /\ calls' = calls + 1
  /\ reused' = FALSE
  /\ UNCHANGED <<board0, stack, retval, result, touched, log, utilVars, restVars>>

InitReuse ==
  /\ board \in ReuseInputs
  /\ InitSolver
  /\ InitUtil
  /\ InitRest

NextReuse == SolverStep \/ ReuseCall \/ FreshCall

SpecReuse == InitReuse /\ [][NextReuse]_vars

----------------------------------------------------------------------------
(* checkIllegalMove and checkCompletion *)

\* variant: only "." counts as empty
NonEmptyDotOnly(v) == v # "."

\* value !== "." && value !== ""
NonEmpty(v) == v # "." /\ v # ""

\* the loop indices 0..8 in loop order
IdxSeq == [i \in 1 .. N |-> i - 1]

InList(list, p) == \E i \in 1 .. Len(list) : list[i] = p

\* the cells <<row, c>>, c ascending, that hold v
RowCellsHolding(b, row, v) ==
  LET cs == SelectSeq(IdxSeq, LAMBDA c : b[row][c] = v)
  IN [i \in 1 .. Len(cs) |-> <<row, cs[i]>>]

\* one iteration of the row loop: the first column whose value was seen
\* before in the row pushes every cell of the row holding that value and
\* ends the scan of the row (break)
RowScan(b, row) ==
  LET dup == {c \in Idx : /\ NonEmpty(b[row][c])
                          /\ \E c2 \in Idx : c2 < c /\ b[row][c2] = b[row][c]}
  IN IF dup = {} THEN <<>>
     ELSE LET c0 == CHOOSE c \in dup : \A c2 \in dup : c <= c2
          IN RowCellsHolding(b, row, b[row][c0])

\* the cells <<r, col>>, r ascending, that hold v and are not yet in list
ColCellsHolding(b, col, v, list) ==
  LET rs == SelectSeq(IdxSeq, LAMBDA r : b[r][col] = v /\ ~InList(list, <<r, col>>))
  IN [i \in 1 .. Len(rs) |-> <<rs[i], col>>]

\* one iteration of the column loop, list being the conflicts so far
ColScan(b, col, list) ==
  LET dup == {r \in Idx : /\ NonEmpty(b[r][col])
                          /\ \E r2 \in Idx : r2 < r /\ b[r2][col] = b[r][col]}
  IN IF dup = {} THEN <<>>
     ELSE LET r0 == CHOOSE r \in dup : \A r2 \in dup : r <= r2
          IN ColCellsHolding(b, col, b[r0][col], list)

\* the k-th cell of a block in the order of the loops r = 0..2, c = 0..2
BlockCell(blockRow, blockCol, k) ==
  <<blockRow * BlockSize + (k \div BlockSize),
    blockCol * BlockSize + (k % BlockSize)>>

\* blockConflicts of one block: a cell is pushed when its value is in seen,
\* that is when an earlier cell of the block holds it
BlockScan(b, blockRow, blockCol) ==
  LET at(k) == b[BlockCell(blockRow, blockCol, k)[1]][BlockCell(blockRow, blockCol, k)[2]]
      ks == SelectSeq(IdxSeq, LAMBDA k :
                /\ NonEmpty(at(k))
                /\ \E k2 \in Idx : k2 < k /\ at(k2) = at(k))
  IN [i \in 1 .. Len(ks) |-> BlockCell(blockRow, blockCol, ks[i])]

RECURSIVE RowsFrom(_, _)
\* the row loop from row on
RowsFrom(b, row) ==
  IF row = N THEN <<>> ELSE RowScan(b, row) \o RowsFrom(b, row + 1)

RECURSIVE ColsFrom(_, _, _)
\* the column loop from col on, appending to list
ColsFrom(b, col, list) ==
  IF col = N THEN list ELSE ColsFrom(b, col + 1, list \o ColScan(b, col, list))

RECURSIVE BlocksFrom(_, _, _)
\* the block loops from block number k on (blockRow outer, blockCol inner)
BlocksFrom(b, k, list) ==
  IF k = N THEN list
  ELSE BlocksFrom(b, k + 1,
                  list \o BlockScan(b, k \div BlockSize, k % BlockSize))

checkIllegalMove(b) == BlocksFrom(b, 0, ColsFrom(b, 0, RowsFrom(b, 0)))

\* variant: a blank string passes for a filled cell
IsBlankDotOnly(v) == v = "."

\* board[row][col] === "." || board[row][col] === ""
IsBlank(v) == v = "." \/ v = ""

checkCompletion(b) ==
  IF \E row \in Idx, col \in Idx : IsBlank(b[row][col])
  THEN FALSE
  ELSE Len(checkIllegalMove(b)) = 0

MaxEdits == 3

\* cells the user types into before the checks run
EditCells == {<<0, 2>>, <<0, 3>>, <<0, 6>>, <<1, 1>>, <<2, 0>>}

EditVals == {"", "3", "5"}

RECURSIVE Edited(_, _)
\* every board got from b by typing a value into each cell of E
Edited(b, E) ==
  IF E = {} THEN {b}
  ELSE LET p == CHOOSE q \in E : TRUE
       IN {SetCell(e, p[1], p[2], v) : e \in Edited(b, E \ {p}), v \in EditVals}

UtilInputs ==
  UNION { Edited(b, E) :
            b \in {EmptyBoard, FallbackBoard, SolvedGrid},
            E \in {X \in SUBSET EditCells : Cardinality(X) <= MaxEdits} }

\* const { conflicts: newConflicts } = checkIllegalMove(board)
RunCheckIllegalMove ==
  /\ "illegal" \notin upc
  /\ conflicts' = checkIllegalMove(board)
  /\ upc' = upc \cup {"illegal"}
  /\ UNCHANGED <<board, solverVars, completion, restVars>>

\* checkCompletion(board)
RunCheckCompletion ==
  /\ "completion" \notin upc
  /\ completion' = checkCompletion(board)
  /\ upc' = upc \cup {"completion"}
  /\ UNCHANGED <<board, solverVars, conflicts, restVars>>

InitChecks ==
  /\ board \in UtilInputs
  /\ InitSolver
  /\ InitUtil
  /\ InitRest

NextChecks == RunCheckIllegalMove \/ RunCheckCompletion

SpecChecks == InitChecks /\ [][NextChecks]_vars

----------------------------------------------------------------------------
(* compareBoards, getValidationStats, getHint and isValidSudoku: pure      *)
(* functions of (currentBoard, solvedBoard, originalCells).  An accuracy   *)
(* is kept in hundredths of a percent, so 9677 stands for 96.77.           *)

\* the positions in the order of the nested loops (i outer, j inner)
CellSeq == [k \in 1 .. N * N |-> <<(k - 1) \div N, (k - 1) % N>>]

\* variant: rounds down
MathFloor(num, den) == num \div den

\* Math.round(num / den) for num >= 0, den > 0
MathRound(num, den) == (2 * num + den) \div (2 * den)

\* Math.round(accuracy * 100), where
\* accuracy = filled > 0 ? (correct / filled) * 100 : 0
RoundedAccuracy(correct, filled) ==
  IF filled > 0 THEN MathRound(correct * 100 * 100, filled)
  ELSE MathRound(0, 1)

\* variant: a cleared cell ("") counts as empty too
IsDotOrBlank(v) == v = "." \/ v = ""

\* currentValue === "."
IsDot(v) == v = "."

compareBoards(currentBoard, solvedBoard) ==
  LET cur(p) == currentBoard[p[1]][p[2]]
      sol(p) == solvedBoard[p[1]][p[2]]
      emptyCells == SelectSeq(CellSeq, LAMBDA p : IsDot(cur(p)))
      correctCells ==
        SelectSeq(CellSeq, LAMBDA p : ~IsDot(cur(p)) /\ cur(p) = sol(p))
      incorrectCells ==
        SelectSeq(CellSeq, LAMBDA p : ~IsDot(cur(p)) /\ cur(p) # sol(p))
      totalFilledCells == Len(correctCells) + Len(incorrectCells)
  IN [correctCells |-> correctCells,
      incorrectCells |-> incorrectCells,
      emptyCells |-> emptyCells,
      accuracy |-> RoundedAccuracy(Len(correctCells), totalFilledCells)]

\* true iff no value other than "." occurs twice in a row, column or block
isValidSudoku(b) ==
  ~ \E p \in Idx \X Idx, q \in Idx \X Idx :
      /\ p # q
      /\ b[p[1]][p[2]] # "."
      /\ b[p[1]][p[2]] = b[q[1]][q[2]]
      /\ \/ p[1] = q[1]
         \/ p[2] = q[2]
         \/ BlockIndex(p[1], p[2]) = BlockIndex(q[1], q[2])

\* no cell is ".", and the board is valid
isCompleteAndValid(b) ==
  IF \E i \in Idx, j \in Idx : b[i][j] = "."
  THEN FALSE
  ELSE isValidSudoku(b)

\* variant: given cells are counted among the filled cells as well
CountedAlsoGiven(originalCells, p) == TRUE

\* the else branch of  if (originalCells[i][j]) originalCount++
Counted(originalCells, p) == ~originalCells[p[1]][p[2]]

getValidationStats(currentBoard, solvedBoard, originalCells) ==
  LET cur(p) == currentBoard[p[1]][p[2]]
      sol(p) == solvedBoard[p[1]][p[2]]
      totalCells == N * N
      originalCount ==
        Len(SelectSeq(CellSeq, LAMBDA p : originalCells[p[1]][p[2]]))
      filledCells ==
        Len(SelectSeq(CellSeq,
              LAMBDA p : Counted(originalCells, p) /\ cur(p) # "."))
      correctCells ==
        Len(SelectSeq(CellSeq,
              LAMBDA p : /\ Counted(originalCells, p)
                         /\ cur(p) # "."
                         /\ cur(p) = sol(p)))
      incorrectCells == filledCells - correctCells
  IN [totalCells |-> totalCells,
      filledCells |-> filledCells,
      correctCells |-> correctCells,
      incorrectCells |-> incorrectCells,
      originalCells |-> originalCount,
      accuracy |-> RoundedAccuracy(correctCells, filledCells),
      isComplete |-> (filledCells + originalCount = totalCells),
      isValid |-> (isValidSudoku(currentBoard) /\ incorrectCells = 0)]

\* variant: given cells are offered as hints too
HintableAlsoGiven(currentBoard, originalCells, p) ==
  currentBoard[p[1]][p[2]] = "."

\* currentBoard[i][j] === "." && !originalCells[i][j]
Hintable(currentBoard, originalCells, p) ==
  currentBoard[p[1]][p[2]] = "." /\ ~originalCells[p[1]][p[2]]

availableHints(currentBoard, originalCells) ==
  SelectSeq(CellSeq, LAMBDA p : Hintable(currentBoard, originalCells, p))

\* the hint at availableHints[randomIndex]
HintAt(hints, solvedBoard, randomIndex) ==
  LET p == hints[randomIndex + 1]
  IN [row |-> p[1], col |-> p[2], value |-> solvedBoard[p[1]][p[2]]]

\* cell !== "." && cell !== ""
GivenMask(b) == [i \in Idx |-> [j \in Idx |-> b[i][j] # "." /\ b[i][j] # ""]]

MaxFnEdits == 2

FnCells == {<<0, 2>>, <<0, 3>>, <<4, 4>>, <<8, 8>>}

FnVals == {".", "", "4"}

RECURSIVE EditedWith(_, _, _)
EditedWith(b, E, V) ==
  IF E = {} THEN {b}
  ELSE LET p == CHOOSE q \in E : TRUE
       IN {SetCell(e, p[1], p[2], v) : e \in EditedWith(b, E \ {p}, V), v \in V}

FnCurrents ==
  UNION { EditedWith(b, E, FnVals) :
            b \in {EmptyBoard, FallbackBoard, SolvedGrid},
            E \in {X \in SUBSET FnCells : Cardinality(X) <= MaxFnEdits} }

FnSolveds == {SolvedGrid, SetCell(SolvedGrid, 0, 2, "")}

FnInputs ==
  {[current |-> c, solved |-> s, given |-> g] :
     c \in FnCurrents, s \in FnSolveds,
     g \in {NoGivens, GivenMask(FallbackBoard)}} \cup
  {[current |-> c, solved |-> s, given |-> GivenMask(c)] :
     c \in FnCurrents, s \in FnSolveds}

\* compareBoards(currentBoard, solvedBoard)
RunCompareBoards ==
  /\ fnOut.fn = "none"
  /\ fnOut' = [fn |-> "compareBoards",
               val |-> compareBoards(fnArgs.current, fnArgs.solved)]
  /\ UNCHANGED <<board, solverVars, utilVars, fnArgs, uiVars, fetchVars>>

\* getValidationStats(currentBoard, solvedBoard, originalCells)
RunGetValidationStats ==
  /\ fnOut.fn = "none"
  /\ fnOut' = [fn |-> "getValidationStats",
               val |-> getValidationStats(fnArgs.current, fnArgs.solved,
                                          fnArgs.given)]
  /\ UNCHANGED <<board, solverVars, utilVars, fnArgs, uiVars, fetchVars>>

\* getHint, the loops that fill availableHints
CollectHints ==
  /\ fnOut.fn = "none"
  /\ fnOut' = [fn |-> "availableHints",
               val |-> availableHints(fnArgs.current, fnArgs.given)]
  /\ UNCHANGED <<board, solverVars, utilVars, fnArgs, uiVars, fetchVars>>

\* if (availableHints.length === 0) return null
ReturnNull ==
  /\ fnOut.fn = "availableHints"
  /\ Len(fnOut.val) = 0
  /\ fnOut' = [fn |-> "getHint", null |-> TRUE]
  /\ UNCHANGED <<board, solverVars, utilVars, fnArgs, uiVars, fetchVars>>

\* randomIndex = Math.floor(Math.random() * availableHints.length)
ReturnHint ==
  /\ fnOut.fn = "availableHints"
  /\ \E randomIndex \in 0 .. (Len(fnOut.val) - 1) :
       fnOut' = [fn |-> "getHint", null |-> FALSE,
                 val |-> HintAt(fnOut.val, fnArgs.solved, randomIndex)]
  /\ UNCHANGED <<board, solverVars, utilVars, fnArgs, uiVars, fetchVars>>

\* getHint(currentBoard, solvedBoard, originalCells)
RunGetHint == CollectHints \/ ReturnNull \/ ReturnHint

InitFns ==
  /\ board = EmptyBoard
  /\ InitSolver
  /\ InitUtil
  /\ fnArgs \in FnInputs
  /\ fnOut = NoOut
  /\ InitUiIdle
  /\ InitFetchIdle

NextFns == RunCompareBoards \/ RunGetValidationStats \/ RunGetHint

SpecFns == InitFns /\ [][NextFns]_vars

----------------------------------------------------------------------------
(* The SudokuBoard component.  ui holds the React state; a state update   *)
(* and the effects it triggers are one step (updates made in one callback *)
(* are batched).  A value that may be null is a sequence of length 0 or 1. *)

\* the other completion of SolvedGrid's rectangle (3,5) (3,8) (4,5) (4,8)
AltGrid ==
  SetCell(SetCell(SetCell(SetCell(SolvedGrid, 3, 5, "3"), 3, 8, "1"),
                  4, 5, "1"), 4, 8, "3")

\* the board passed as initialBoard: one empty cell
PropPuzzle == Punch(AltGrid, {<<0, 2>>})

\* the board a fetch resolves to: three empty cells
FetchedPuzzle == Punch(SolvedGrid, {<<3, 5>>, <<3, 8>>, <<4, 5>>})

PropBoards == {PropPuzzle}

FetchBoards == {FetchedPuzzle}

\* the cells the user edits and the values typed
UiCells == {<<0, 2>>, <<4, 5>>}

UiVals == {"", "1", "4", "a"}

MaxUiOps == 3

\* Solve is pressed on boards with at most this many "." cells
MaxSolveHoles == 4

\* variant: any single character is accepted
validateInputAny(cellValue) == TRUE

\* cellValue === "" || /^[1-9]$/.test(cellValue)
validateInput(cellValue) == cellValue = "" \/ cellValue \in Digits

\* checkCompletion(board) && !hasWon
Won(s) == checkCompletion(s.board) /\ ~s.hasWon

\* the effect on [board, hasWon, onComplete], run on the state s that the
\* callback's updates produce
CompletionEffect(s) ==
  IF Won(s)
  THEN [s EXCEPT !.isCompleted = TRUE, !.hasWon = TRUE,
                 !.showCompletionModal = TRUE]
  ELSE s

\* a callback that sets board or hasWon has produced s
Commit(s, op) ==
  /\ ui' = CompletionEffect(s)
  /\ last' = [op EXCEPT !.onComplete = Won(s),
                        !.fired = IF Won(s) THEN @ + 1 ELSE @]

\* a callback that sets neither has produced s
CommitNoEffect(s, op) ==
  /\ ui' = s
  /\ last' = op

\* the operations that put a puzzle on the board: a load, a new
\* initialBoard, Reset and Clear All
PuzzleStarts == {"loaded", "initialBoard", "reset", "clearAll"}

\* onComplete calls since the puzzle was put on the board, before name runs
FiredBefore(name) == IF name \in PuzzleStarts THEN 0 ELSE last.fired

\* a user or parent operation (counted against MaxUiOps) and the message
\* it passes to setSolverMessage, "" if none
UserOp(name, message) ==
  [n |-> last.n + 1, op |-> name, onComplete |-> FALSE, message |-> message,
   fired |-> FiredBefore(name)]

\* a timer or promise callback
Callback(name, message) ==
  [n |-> last.n, op |-> name, onComplete |-> FALSE, message |-> message,
   fired |-> FiredBefore(name)]

\* no callback is running
Ready == js = "none" /\ pc = "done"

CanAct == Ready /\ last.n < MaxUiOps

\* the board and the controls are rendered
OnScreen == ~ui.isLoading

\* setBoard .. setShowCompletionModal(false) of loadNewPuzzle and of the
\* initialBoard effect
Loaded(s, newBoard) ==
  [s EXCEPT !.board = newBoard,
            !.originalCells = GivenMask(newBoard),
            !.originalBoard = <<newBoard>>,
            !.isCompleted = FALSE,
            !.hasWon = FALSE,
            !.showCompletionModal = FALSE]

\* what the component's handlers leave alone
uiFrame == <<board, solverVars, utilVars, fnVars, fetchVars>>

\* loadNewPuzzle up to the await
ClickNewPuzzle ==
  /\ CanAct /\ OnScreen
  /\ CommitNoEffect([ui EXCEPT !.isLoading = TRUE], UserOp("newPuzzle", ""))
  /\ fetches' = fetches + 1
  /\ UNCHANGED <<uiFrame, initialBoard, timers, js>>

\* loadNewPuzzle after the await: newBoard is what fetchPuzzle resolved to
FetchResolved ==
  /\ Ready
  /\ fetches > 0
  /\ \E newBoard \in FetchBoards :
       Commit([Loaded(ui, newBoard) EXCEPT !.isLoading = FALSE],
              Callback("loaded", ""))
  /\ fetches' = fetches - 1
  /\ UNCHANGED <<uiFrame, initialBoard, timers, js>>

\* the parent passes a board as initialBoard
PropSet ==
  /\ CanAct
  /\ initialBoard = <<>>
  /\ \E b \in PropBoards :
       /\ initialBoard' = <<b>>
       /\ Commit(Loaded(ui, b), UserOp("initialBoard", ""))
  /\ UNCHANGED <<uiFrame, timers, fetches, js>>

\* the parent stops passing initialBoard: the effect calls loadNewPuzzle
PropUnset ==
  /\ CanAct
  /\ initialBoard # <<>>
  /\ initialBoard' = <<>>
  /\ CommitNoEffect([ui EXCEPT !.isLoading = TRUE],
                    UserOp("initialBoardUnset", ""))
  /\ fetches' = fetches + 1
  /\ UNCHANGED <<uiFrame, timers, js>>

\* the body of handleCellChange(row, col, value)
CellChange(row, col, value) ==
  LET op == [n |-> last.n + 1, op |-> "cellChange", onComplete |-> FALSE,
             message |-> "", fired |-> last.fired,
             row |-> row, col |-> col, value |-> value]
  IN IF ui.originalCells[row][col] \/ ~validateInput(value)
     THEN CommitNoEffect(ui, op)
     ELSE Commit([ui EXCEPT !.board = SetCell(ui.board, row, col, value)], op)

\* handleCellChange(row, col, value)
HandleCellChange(row, col, value) ==
  /\ CanAct /\ OnScreen
  /\ CellChange(row, col, value)
  /\ UNCHANGED <<uiFrame, initialBoard, timers, fetches, js>>

\* handleSolve: the part that runs at the click
ClickSolve ==
  /\ CanAct /\ OnScreen
  /\ ~ui.isSolving
  /\ Cardinality({p \in Idx \X Idx : ui.board[p[1]][p[2]] = "."})
       <= MaxSolveHoles
  /\ CommitNoEffect([ui EXCEPT !.isSolving = TRUE],
                    UserOp("solve", "Solving..."))
  /\ timers' = Append(timers, ui.board)
  /\ UNCHANGED <<uiFrame, initialBoard, fetches, js>>

\* the timer callback starts: solveSudoku(boardToSolve), a new SudokuSolver
SolveTimerFires ==
  /\ Ready
  /\ timers # <<>>
  /\ board' = Head(timers)
  /\ timers' = Tail(timers)
  /\ rows' = NewTable
  /\ cols' = NewTable
  /\ blocks' = NewTable
  /\ pc' = "idle"
  /\ js' = "solveTimer"
  /\ UNCHANGED <<board0, stack, retval, result, touched, log, calls, reused,
                 utilVars, fnVars, fetchVars, ui, initialBoard, fetches, last>>

\* variant: the callback does not mark the puzzle as won
SolveAppliedNotWon(s, success, boardToSolve) ==
  IF success
  THEN [s EXCEPT !.board = boardToSolve,
                 !.solvedBoard = <<boardToSolve>>,
                 !.isCompleted = TRUE,
                 !.showCompletionModal = FALSE,
                 !.isSolving = FALSE]
  ELSE [s EXCEPT !.isSolving = FALSE]

\* the state after if (success) { ... } else { ... } and setIsSolving(false)
SolveApplied(s, success, boardToSolve) ==
  IF success
  THEN [s EXCEPT !.board = boardToSolve,
                 !.solvedBoard = <<boardToSolve>>,
                 !.isCompleted = TRUE,
                 !.hasWon = TRUE,
                 !.showCompletionModal = FALSE,
                 !.isSolving = FALSE]
  ELSE [s EXCEPT !.isSolving = FALSE]

\* setSolverMessage in the timer callback
SolveMessage(success) ==
  IF success THEN "Puzzle solved successfully!"
  ELSE "No solution exists for this puzzle!"

\* the timer callback after solveSudoku has returned
SolveTimerApplies ==
  /\ js = "solveTimer"
  /\ pc = "done"
  /\ Commit(SolveApplied(ui, result, board),
            [n |-> last.n, op |-> "solved", onComplete |-> FALSE,
             message |-> SolveMessage(result), fired |-> last.fired,
             success |-> result])
  /\ js' = "none"
  /\ log' = {}
  /\ UNCHANGED <<board, board0, rows, cols, blocks, stack, pc, retval,
                 result, touched, calls, reused, utilVars, fnVars, fetchVars,
                 initialBoard, timers, fetches>>

\* variant: the solved board survives a reset
ResetStateKeepsSolved(s) ==
  [s EXCEPT !.board = s.originalBoard[1],
            !.originalCells = GivenMask(s.originalBoard[1]),
            !.isCompleted = FALSE,
            !.showValidation = FALSE,
            !.validationStats = <<>>,
            !.hasWon = FALSE,
            !.showCompletionModal = FALSE]

\* the state handleResetToOriginal produces when originalBoard is set
ResetState(s) ==
  [s EXCEPT !.board = s.originalBoard[1],
            !.originalCells = GivenMask(s.originalBoard[1]),
            !.isCompleted = FALSE,
            !.showValidation = FALSE,
            !.validationStats = <<>>,
            !.solvedBoard = <<>>,
            !.hasWon = FALSE,
            !.showCompletionModal = FALSE]

\* handleResetToOriginal
ClickReset ==
  /\ CanAct /\ OnScreen
  /\ ~ui.isSolving
  /\ IF ui.originalBoard # <<>>
     THEN Commit(ResetState(ui), UserOp("reset", "Reset to original puzzle!"))
     ELSE CommitNoEffect(ui, UserOp("reset", ""))
  /\ UNCHANGED <<uiFrame, initialBoard, timers, fetches, js>>

\* the message handleValidateSolution shows for stats (without the
\* numbers it interpolates)
ValidationMessage(stats) ==
  IF stats.isComplete /\ stats.isValid
  THEN "Congratulations! Board is complete and correct!"
  ELSE IF stats.isComplete
       THEN "Board is complete but has incorrect cells."
       ELSE "Board has filled cells with accuracy."

\* handleValidateSolution
ClickCheckSolution ==
  /\ CanAct /\ OnScreen
  /\ ~ui.isSolving
  /\ IF ui.solvedBoard = <<>>
     THEN CommitNoEffect(ui, UserOp("check", "Please solve the puzzle first!"))
     ELSE LET stats == getValidationStats(ui.board, ui.solvedBoard[1],
                                          ui.originalCells)
          IN CommitNoEffect(
               [ui EXCEPT !.validationStats = <<stats>>,
                          !.showValidation = TRUE,
                          !.isCompleted =
                             IF stats.isComplete /\ stats.isValid
                             THEN TRUE ELSE @],
               UserOp("check", ValidationMessage(stats)))
  /\ UNCHANGED <<uiFrame, initialBoard, timers, fetches, js>>

\* handleToggleValidation
ClickToggleValidation ==
  /\ CanAct /\ OnScreen
  /\ ~ui.isSolving
  /\ CommitNoEffect(
       [ui EXCEPT !.showValidation = ~ui.showValidation,
                  !.validationStats =
                     IF ~ui.showValidation /\ ui.solvedBoard # <<>>
                     THEN <<getValidationStats(ui.board, ui.solvedBoard[1],
                                               ui.originalCells)>>
                     ELSE @],
       UserOp("toggle", ""))
  /\ UNCHANGED <<uiFrame, initialBoard, timers, fetches, js>>

\* the body of onClearAll
ClearAll ==
  Commit([ui EXCEPT !.board = EmptyBoard,
                    !.originalCells = NoGivens,
                    !.originalBoard = <<>>,
                    !.solvedBoard = <<>>,
                    !.isCompleted = FALSE,
                    !.showValidation = FALSE,
                    !.validationStats = <<>>],
         UserOp("clearAll", ""))

\* onClearAll
ClickClearAll ==
  /\ CanAct /\ OnScreen
  /\ ClearAll
  /\ UNCHANGED <<uiFrame, initialBoard, timers, fetches, js>>

\* the modal's Close button
ClickCloseModal ==
  /\ CanAct /\ OnScreen
  /\ ui.showCompletionModal
  /\ CommitNoEffect([ui EXCEPT !.showCompletionModal = FALSE],
                    UserOp("closeModal", ""))
  /\ UNCHANGED <<uiFrame, initialBoard, timers, fetches, js>>

\* solveSudoku runs inside the timer callback
SolverRuns == js = "solveTimer" /\ SolverStep

UserEdits ==
  \E p \in UiCells, value \in UiVals : HandleCellChange(p[1], p[2], value)

\* the solver is at rest
InitSolverDone ==
  /\ board = EmptyBoard
  /\ board0 = EmptyBoard
  /\ rows = NewTable
  /\ cols = NewTable
  /\ blocks = NewTable
  /\ stack = <<>>
  /\ pc = "done"
  /\ retval = FALSE
  /\ result = FALSE
  /\ touched = FALSE
  /\ log = {}
  /\ calls = 1
  /\ reused = FALSE

\* the component after mount: with initialBoard the board is loaded from
\* it, without it loadNewPuzzle has been called
InitUi ==
  /\ InitSolverDone
  /\ InitUtil
  /\ InitFnsIdle
  /\ InitFetchIdle
  /\ timers = <<>>
  /\ js = "none"
  /\ last = NoOp
  /\ \/ /\ initialBoard \in {<<b>> : b \in PropBoards}
        /\ ui = CompletionEffect(Loaded(NewState, initialBoard[1]))
        /\ fetches = 0
     \/ /\ initialBoard = <<>>
        /\ ui = [NewState EXCEPT !.isLoading = TRUE]
        /\ fetches = 1

NextUi ==
  \/ ClickNewPuzzle
  \/ FetchResolved
  \/ PropSet
  \/ PropUnset
  \/ UserEdits
  \/ ClickSolve
  \/ SolveTimerFires
  \/ SolverRuns
  \/ SolveTimerApplies
  \/ ClickReset
  \/ ClickCheckSolution
  \/ ClickToggleValidation
  \/ ClickClearAll
  \/ ClickCloseModal

SpecUi == InitUi /\ [][NextUi]_vars

----------------------------------------------------------------------------
(* fetchPuzzle and the loadNewPuzzle call that awaits it.  A JSON value is *)
(* a record tagged with its type; undefined is what indexing past the end  *)
(* of an array, or into a value that is not an array, yields.              *)

JNum(n) == [t |-> "number", n |-> n]

JNull == [t |-> "null"]

JArr(items) == [t |-> "array", items |-> items]

Undefined == [t |-> "undefined"]

\* Array.isArray(v)
IsArray(v) == v.t = "array"

\* arr[k]
At(arr, k) ==
  IF IsArray(arr) /\ k < Len(arr.items) THEN arr.items[k + 1] ELSE Undefined

\* value === 0 || value === null || value === undefined
IsEmptyValue(value) ==
  \/ value.t = "number" /\ value.n = 0
  \/ value.t = "null"
  \/ value.t = "undefined"

\* String(value) for a number 1..9
JsString(value) == ToString(value.n)

\* value === 0 || value === null || value === undefined ? "." : String(value)
CellOf(value) == IF IsEmptyValue(value) THEN "." ELSE JsString(value)

\* Array.isArray(grid) && grid.length === 81
IsFlatGrid(grid) == IsArray(grid) /\ Len(grid.items) = N * N

\* Array.isArray(grid) && Array.isArray(grid[0]) && grid.length >= 9
IsNestedGrid(grid) ==
  IsArray(grid) /\ IsArray(At(grid, 0)) /\ Len(grid.items) >= N

\* the flat array case
FlatBoard(grid) ==
  [i \in Idx |-> [j \in Idx |-> CellOf(At(grid, i * N + j))]]

\* grid[i] || []
RowArr(grid, i) ==
  LET row == At(grid, i)
  IN IF row.t \in {"null", "undefined"} \/ (row.t = "number" /\ row.n = 0)
     THEN JArr(<<>>)
     ELSE row

\* the nested arrays case
NestedBoard(grid) ==
  [i \in Idx |-> [j \in Idx |-> CellOf(At(RowArr(grid, i), j))]]

\* data.newboard && data.newboard.grids && data.newboard.grids.length > 0
HasGrid(data) == data.newboard /\ Len(data.grids) > 0

\* variant: an exception inside try leaves fetchPuzzle
Uncaught == "rejected"

\* an exception inside try { ... } goes to the catch block
Thrown == "thrown"

\* rows cut to between 9 - MaxCut and 9 values
MaxCut == 2

\* the value a puzzle cell is sent as; empty cells are sent as e
ValueOf(cell, e) == IF cell = "." THEN e ELSE JNum(ParseInt(cell))

FlatGridOf(b, e, len) ==
  JArr([k \in 1 .. len |-> ValueOf(b[((k - 1) \div N) % N][(k - 1) % N], e)])

NestedGridOf(b, e, nrows, width) ==
  JArr([i \in 1 .. nrows |->
          JArr([j \in 1 .. width |-> ValueOf(b[(i - 1) % N][j - 1], e)])])

\* a grid whose row i is not an array
WithRow(grid, i, v) == JArr([grid.items EXCEPT ![i + 1] = v])

SentBoards == {FetchedPuzzle, FallbackBoard, PropPuzzle}

SentGrids ==
  {FlatGridOf(b, e, len) :
     b \in SentBoards, e \in {JNum(0), JNull}, len \in {N * N - 1, N * N}}
  \cup
  {NestedGridOf(b, e, nrows, N - cut) :
     b \in SentBoards, e \in {JNum(0), JNull},
     nrows \in {N - 1, N, N + 1}, cut \in 0 .. MaxCut}
  \cup
  {WithRow(NestedGridOf(b, JNum(0), N, N), i, JNull) :
     b \in SentBoards, i \in {0, 4}}
  \cup {JNum(5)}

Responses ==
  {[kind |-> "networkError"],
   [kind |-> "http", ok |-> FALSE],
   [kind |-> "http", ok |-> TRUE, json |-> <<>>],
   [kind |-> "http", ok |-> TRUE,
    json |-> <<[newboard |-> FALSE, grids |-> <<>>]>>],
   [kind |-> "http", ok |-> TRUE,
    json |-> <<[newboard |-> TRUE, grids |-> <<>>]>>]}
  \cup
  {[kind |-> "http", ok |-> TRUE,
    json |-> <<[newboard |-> TRUE, grids |-> <<g>>]>>] : g \in SentGrids}

fetchFrame == <<board, solverVars, utilVars, fnVars, initialBoard, timers, js>>

\* loadNewPuzzle up to the await, and fetchPuzzle up to await fetch(...)
CallLoadNewPuzzle ==
  /\ fpc = "idle"
  /\ CommitNoEffect([ui EXCEPT !.isLoading = TRUE], UserOp("newPuzzle", ""))
  /\ fetches' = fetches + 1
  /\ fpc' = "fetching"
  /\ UNCHANGED <<fetchFrame, net, fres>>

\* await fetch(...) rejects
FetchRejects ==
  /\ fpc = "fetching"
  /\ net.kind = "networkError"
  /\ fpc' = Thrown
  /\ UNCHANGED <<fetchFrame, ui, last, fetches, net, fres>>

\* await fetch(...) resolves; if (!response.ok) throw
ResponseArrives ==
  /\ fpc = "fetching"
  /\ net.kind = "http"
  /\ fpc' = IF net.ok THEN "json" ELSE Thrown
  /\ UNCHANGED <<fetchFrame, ui, last, fetches, net, fres>>

\* await response.json() and the parsing of data
BodyParsed ==
  /\ fpc = "json"
  /\ IF net.json = <<>>
     THEN fpc' = Thrown /\ fres' = fres
     ELSE LET data == net.json[1]
              grid == data.grids[1]
          IN IF HasGrid(data) /\ IsFlatGrid(grid)
             THEN fpc' = "resolved" /\ fres' = <<FlatBoard(grid)>>
             ELSE IF HasGrid(data) /\ IsNestedGrid(grid)
                  THEN fpc' = "resolved" /\ fres' = <<NestedBoard(grid)>>
                  ELSE fpc' = Thrown /\ fres' = fres
  /\ UNCHANGED <<fetchFrame, ui, last, fetches, net>>

\* catch (error) { ... return fallbackBoard }
CatchReturnsFallback ==
  /\ fpc = "thrown"
  /\ fres' = <<FallbackBoard>>
  /\ fpc' = "resolved"
  /\ UNCHANGED <<fetchFrame, ui, last, fetches, net>>

\* loadNewPuzzle after the await, with its finally block
LoadContinues ==
  /\ fpc = "resolved"
  /\ Commit([Loaded(ui, fres[1]) EXCEPT !.isLoading = FALSE],
            Callback("loaded", ""))
  /\ fetches' = fetches - 1
  /\ fpc' = "done"
  /\ UNCHANGED <<fetchFrame, net, fres>>

InitFetch ==
  /\ InitSolverDone
  /\ InitUtil
  /\ InitFnsIdle
  /\ InitUiIdle
  /\ net \in Responses
  /\ fpc = "idle"
  /\ fres = <<>>

NextFetch ==
  \/ CallLoadNewPuzzle
  \/ FetchRejects
  \/ ResponseArrives
  \/ BodyParsed
  \/ CatchReturnsFallback
  \/ LoadContinues

\* the network answers or fails, and the continuations of the awaits run
SpecFetch == InitFetch /\ [][NextFetch]_vars /\ WF_vars(NextFetch)

----------------------------------------------------------------------------
(* What a solved grid and a valid completion are (the rules of Sudoku,     *)
(* stated on the board alone, without the solver's tables)                 *)

Cells == Idx \X Idx

Val(b, p) == b[p[1]][p[2]]

Units ==
  {{<<r, c>> : c \in Idx} : r \in Idx} \cup
  {{<<r, c>> : r \in Idx} : c \in Idx} \cup
  {{<<3 * a + i, 3 * k + j>> : i \in 0 .. 2, j \in 0 .. 2} :
      a \in 0 .. 2, k \in 0 .. 2}

PeersOf == [p \in Cells |->
              {q \in Cells \ {p} : \E U \in Units : p \in U /\ q \in U}]

\* no "." cell, and each digit exactly once in every row, column and block
IsSolvedGrid(b) ==
  /\ \A p \in Cells : Val(b, p) # "."
  /\ \A U \in Units : \A d \in Digits :
        Cardinality({p \in U : Val(b, p) = d}) = 1

\* the board's cells are "." or a digit
WellFormed(b) == \A p \in Cells : Val(b, p) \in Digits \cup {"."}

EmptyCells(b) == {p \in Cells : Val(b, p) = "."}

\* position of a cell in row-major order
Rank(p) == p[1] * N + p[2]

FirstOf(S) == CHOOSE p \in S : \A q \in S : Rank(p) <= Rank(q)

RECURSIVE Completions(_)
\* every solved grid that keeps each cell of b that is not "."
Completions(b) ==
  IF EmptyCells(b) = {}
  THEN IF IsSolvedGrid(b) THEN {b} ELSE {}
  ELSE LET p == FirstOf(EmptyCells(b))
           free == {d \in Digits : \A q \in PeersOf[p] : Val(b, q) # d}
       IN UNION {Completions(SetCell(b, p[1], p[2], d)) : d \in free}

\* a precedes-or-equals g, reading the cells empty in b0 in row-major order
LexLeq(a, g, b0) ==
  LET D == {p \in EmptyCells(b0) : Val(a, p) # Val(g, p)}
  IN D = {} \/ ParseInt(Val(a, FirstOf(D))) < ParseInt(Val(g, FirstOf(D)))

Returned(v) == pc = "done" /\ result = v

----------------------------------------------------------------------------
(* Claims about solve *)

\* C1: for every board of "." / digit cells, if solve returns true then the
\* board has no "." cell and every row, column and block holds each digit
\* 1-9 exactly once.
C1_TrueMeansSolvedGrid ==
  (Returned(TRUE) /\ WellFormed(board0)) => IsSolvedGrid(board)

\* C2: if solve returns false, the board is cell for cell what it was before
\* the call.
C2_FalseRestoresBoard == Returned(FALSE) => board = board0

\* C2 witness: a failed search that had placed (and so had to undo) digits
C2_Witness == Returned(FALSE) /\ touched /\ board = board0

\* C3: a board with a valid completion makes solve return true (false is
\* returned only when there is none), and when the completion is unique the
\* board ends as exactly that completion.
C3_SolvableIsSolved ==
  (pc = "done" /\ WellFormed(board0)) =>
     LET all == Completions(board0)
     IN /\ all # {} => result
        /\ ~result => all = {}
        /\ Cardinality(all) = 1 => board \in all

\* C3 witness: a uniquely solvable board with holes has been solved
C3_Witness ==
  /\ Returned(TRUE)
  /\ touched
  /\ Cardinality(Completions(board0)) = 1
  /\ board \in Completions(board0)

\* C4: when solve returns true on a board with several valid completions, the
\* result is the completion whose digits, read over the originally empty
\* cells in row-major order, are lexicographically smallest.
C4_FirstInSearchOrder ==
  (Returned(TRUE) /\ WellFormed(board0)) =>
     LET all == Completions(board0)
     IN Cardinality(all) >= 2 =>
          /\ board \in all
          /\ \A g \in all : LexLeq(board, g, board0)

\* C4 witness: solve has returned true on a board with two completions
C4_Witness ==
  /\ Returned(TRUE)
  /\ Cardinality(Completions(board0)) >= 2
  /\ \E g \in Completions(board0) : g # board /\ LexLeq(board, g, board0)

\* C6: during and after a solve call, every cell that was not "." at the call
\* still holds the value it had at the call.
C6_GivenCellsUntouched ==
  pc # "idle" => \A p \in Cells : Val(board0, p) # "." =>
                                    Val(board, p) = Val(board0, p)

\* C6 witness: digits have been placed next to given cells, "" among them
C6_Witness ==
  /\ pc = "done"
  /\ touched
  /\ \E p \in Cells : Val(board0, p) = "" /\ Val(board, p) = ""
  /\ \E p \in Cells : Val(board0, p) = "." /\ Val(board, p) # "."

\* C5: the outcome of solve depends only on the input board: any two calls on
\* copies of the same board return the same value and leave the same board,
\* also when the later call runs on an instance used before.
C5_OutcomeDependsOnInputOnly ==
  \A a \in log : \A b \in log :
     a.in = b.in => (a.res = b.res /\ a.out = b.out)

\* C5 witness: a board was solved, another board failed on the same
\* instance, and the first board was solved again on that instance
C5_Witness ==
  \E a \in log : \E b \in log : \E c \in log :
     /\ a.n = 1 /\ b.n = 2 /\ c.n = 3
     /\ b.reused /\ c.reused
     /\ a.in = c.in /\ b.in # a.in
     /\ a.res /\ ~b.res /\ c.res
     /\ a.out # a.in /\ c.out = a.out

----------------------------------------------------------------------------
(* Claims about checkIllegalMove and checkCompletion *)

Reported(p) == InList(conflicts, p)

RowOf(r) == {<<r, c>> : c \in Idx}

ColOf(c) == {<<r, c>> : r \in Idx}

BlockUnits == {{<<3 * a + i, 3 * k + j>> : i \in 0 .. 2, j \in 0 .. 2} :
                 a \in 0 .. 2, k \in 0 .. 2}

\* every cell of U holding a digit that occurs twice or more in U is reported
AllDuplicatesReported(U) ==
  \A d \in Digits :
     Cardinality({p \in U : Val(board, p) = d}) >= 2 =>
        \A p \in U : Val(board, p) = d => Reported(p)

\* C7: for every row (and every column) and every digit that occurs two or
\* more times in it, checkIllegalMove reports every cell of that row (column)
\* holding the digit, also when the row holds more than one duplicated digit.
C7_RowColumnDuplicatesReported ==
  "illegal" \in upc =>
     /\ \A r \in Idx : AllDuplicatesReported(RowOf(r))
     /\ \A c \in Idx : AllDuplicatesReported(ColOf(c))

\* C8: for every 3x3 block and every digit that occurs two or more times in
\* it, checkIllegalMove reports every cell of the block holding the digit,
\* the first occurrence included.
C8_BlockDuplicatesReported ==
  "illegal" \in upc => \A U \in BlockUnits : AllDuplicatesReported(U)

\* C9: every reported position holds a non-empty value and some other cell
\* of its row, column or block holds the same value; an empty cell is never
\* reported.
C9_ReportedCellsConflict ==
  "illegal" \in upc =>
     \A i \in 1 .. Len(conflicts) :
        /\ Val(board, conflicts[i]) \notin {".", ""}
        /\ \E q \in PeersOf[conflicts[i]] :
              Val(board, q) = Val(board, conflicts[i])

\* C9 witness: conflicts are reported on a board that also has two blank
\* cells in one row
C9_Witness ==
  /\ "illegal" \in upc
  /\ Len(conflicts) > 0
  /\ \E r \in Idx : \E p \in RowOf(r) : \E q \in RowOf(r) :
        p # q /\ Val(board, p) = "" /\ Val(board, q) = ""

\* C10: checkCompletion is true exactly when no cell is empty and every row,
\* column and block holds each digit 1-9 exactly once.
C10_CompletionIffSolvedGrid ==
  "completion" \in upc =>
     (completion <=> (/\ \A p \in Cells : Val(board, p) \notin {".", ""}
                      /\ IsSolvedGrid(board)))

\* C10 witness: checkCompletion has returned true
C10_Witness == "completion" \in upc /\ completion

----------------------------------------------------------------------------
(* Properties of the comparison functions *)

\* how often position p occurs in list
Occurrences(list, p) == Cardinality({i \in 1 .. Len(list) : list[i] = p})

Compared == fnOut.fn = "compareBoards"

StatsTaken == fnOut.fn = "getValidationStats"

\* the cells that are not given
NotGiven == {p \in Cells : ~fnArgs.given[p[1]][p[2]]}

\* C12: in the result of getValidationStats, incorrectCells + correctCells
\* = filledCells, 0 <= correctCells <= filledCells <= 81 - originalCells,
\* totalCells = 81, and isComplete holds iff filledCells + originalCells =
\* 81; a given cell is counted in originalCells only, whatever it holds.
C12_StatsCountsConsistent ==
  StatsTaken =>
    LET r == fnOut.val
    IN /\ r.incorrectCells + r.correctCells = r.filledCells
       /\ 0 <= r.correctCells
       /\ r.correctCells <= r.filledCells
       /\ r.filledCells <= 81 - r.originalCells
       /\ r.totalCells = 81
       /\ r.isComplete <=> (r.filledCells + r.originalCells = 81)
       /\ r.originalCells = Cardinality(Cells \ NotGiven)
       /\ r.filledCells =
            Cardinality({p \in NotGiven : Val(fnArgs.current, p) # "."})
       /\ r.correctCells =
            Cardinality({p \in NotGiven :
                           /\ Val(fnArgs.current, p) # "."
                           /\ Val(fnArgs.current, p) = Val(fnArgs.solved, p)})

\* statistics of a complete board with given cells, correct entries and
\* at least one incorrect entry
C12_Witness ==
  /\ StatsTaken
  /\ fnOut.val.isComplete
  /\ fnOut.val.originalCells > 0
  /\ fnOut.val.correctCells > 0
  /\ fnOut.val.incorrectCells > 0

\* the cells the returned accuracy is computed over, and the correct ones
CountedFilled ==
  IF Compared
  THEN Len(fnOut.val.correctCells) + Len(fnOut.val.incorrectCells)
  ELSE fnOut.val.filledCells

CountedCorrect ==
  IF Compared THEN Len(fnOut.val.correctCells) ELSE fnOut.val.correctCells

\* C13: the accuracy returned by compareBoards and by getValidationStats
\* lies in [0, 100]; it is 0 when no filled cell is counted, and otherwise
\* 100 * correct / filled rounded to two decimals, which is 100 exactly
\* when every counted filled cell is correct.  (Accuracies are held in
\* hundredths: h stands for h / 100.)
C13_AccuracyRoundedPercentage ==
  (Compared \/ StatsTaken) =>
    LET h == fnOut.val.accuracy
        c == CountedCorrect
        f == CountedFilled
    IN /\ 0 <= h
       /\ h <= 100 * 100
       /\ f = 0 => h = 0
       /\ f > 0 => /\ 2 * f * h - 2 * 100 * 100 * c <= f
                   /\ 2 * f * h - 2 * 100 * 100 * c > 0 - f
                   /\ h = 100 * 100 <=> c = f

\* an accuracy that is not a whole number of hundredths before rounding
\* and is rounded upwards
C13_Witness ==
  /\ Compared \/ StatsTaken
  /\ CountedFilled > 0
  /\ (100 * 100 * CountedCorrect) % CountedFilled # 0
  /\ 2 * ((100 * 100 * CountedCorrect) % CountedFilled) >= CountedFilled

HintTaken == fnOut.fn = "getHint"

\* the cells that are empty in the current board and not given
HintCandidates ==
  {p \in Cells : Val(fnArgs.current, p) = "." /\ ~fnArgs.given[p[1]][p[2]]}

\* getHint returns the hint for cell p
ReturnsHintFor(p) ==
  /\ ReturnHint
  /\ fnOut' = [fn |-> "getHint", null |-> FALSE,
               val |-> [row |-> p[1], col |-> p[2],
                        value |-> Val(fnArgs.solved, p)]]

----------------------------------------------------------------------------
(* Properties of the SudokuBoard component *)

\* the step is a call of handleCellChange
CellChangeStep == last'.n = last.n + 1 /\ last'.op = "cellChange"

\* C15: handleCellChange(row, col, value) changes the board only if the
\* cell is not given and value is "" or one of "1".."9"; then the cell
\* holds value and no other cell has changed; in every other case the
\* board is unchanged; the given mask is unchanged in all cases.
C15_EditChangesOneFreeCell ==
  [][CellChangeStep =>
       LET row == last'.row
           col == last'.col
           value == last'.value
           allowed ==
             /\ ~ui.originalCells[row][col]
             /\ value \in {"", "1", "2", "3", "4", "5", "6", "7", "8", "9"}
       IN /\ allowed =>
               /\ ui'.board[row][col] = value
               /\ \A p \in Cells :
                    p # <<row, col>> => Val(ui'.board, p) = Val(ui.board, p)
          /\ ~allowed => ui'.board = ui.board
          /\ ui'.originalCells = ui.originalCells]_vars

\* an edit has cleared a cell of a loaded puzzle: the cell holds ""
C15_Witness ==
  /\ last.op = "cellChange"
  /\ last.value = ""
  /\ ~ui.originalCells[last.row][last.col]
  /\ ui.board[last.row][last.col] = ""
  /\ ui.originalBoard # <<>>

\* the timer callback of handleSolve has just reported success
SolveSucceeded ==
  last.op = "solved" /\ last.message = "Puzzle solved successfully!"

\* C16: whenever Solve reports success ("Puzzle solved successfully!"),
\* the board then displayed has no empty cell and holds each digit 1-9
\* exactly once in every row, column and block, and solvedBoard is a copy
\* equal to that board; from every board the user can have produced.
C16_SolveSuccessShowsSolvedGrid ==
  SolveSucceeded =>
    /\ \A p \in Cells : Val(ui.board, p) \in Digits
    /\ IsSolvedGrid(ui.board)
    /\ ui.solvedBoard = <<ui.board>>

\* the step is a call of handleResetToOriginal
ResetStep == last'.n = last.n + 1 /\ last'.op = "reset"

\* C17: after Reset with an original board, the board equals originalBoard
\* (the puzzle as last loaded), the given mask marks exactly its non-empty
\* cells, solvedBoard is null, validation is hidden and validationStats is
\* null, and isCompleted, hasWon and showCompletionModal are false; with no
\* original board, Reset changes nothing.
C17_ResetRestoresLoadedPuzzle ==
  [][ResetStep =>
       IF ui.originalBoard # <<>>
       THEN /\ ui'.originalBoard = ui.originalBoard
            /\ ui'.board = ui.originalBoard[1]
            /\ \A p \in Cells :
                 ui'.originalCells[p[1]][p[2]] <=>
                   Val(ui.originalBoard[1], p) \notin {".", ""}
            /\ ui'.solvedBoard = <<>>
            /\ ~ui'.showValidation
            /\ ui'.validationStats = <<>>
            /\ ~ui'.isCompleted
            /\ ~ui'.hasWon
            /\ ~ui'.showCompletionModal
       ELSE /\ ui' = ui
            /\ UNCHANGED <<initialBoard, timers, fetches, js>>]_vars

\* Reset has run, after a successful solve, on a puzzle that was loaded
C17_Witness ==
  /\ last.op = "reset"
  /\ last.message = "Reset to original puzzle!"
  /\ result
  /\ ui.originalBoard # <<>>
  /\ ui.board = ui.originalBoard[1]
  /\ ui.board # board

\* a puzzle has just been loaded, by loadNewPuzzle or from initialBoard
PuzzleLoaded == last.op \in {"loaded", "initialBoard"}

\* C18: after a new puzzle has been loaded (New Puzzle, or a change of
\* initialBoard) the original board is the new puzzle and nothing of the
\* previous puzzle's validation remains: showValidation is false,
\* validationStats is null and solvedBoard is null.
C18_LoadClearsValidation ==
  PuzzleLoaded =>
    /\ ui.originalBoard = <<ui.board>>
    /\ ~ui.showValidation
    /\ ui.validationStats = <<>>
    /\ ui.solvedBoard = <<>>

\* C19: a successful Solve does not open the completion modal: right after
\* the result is applied showCompletionModal is false and onComplete was
\* not called, and as long as the solved board stays on screen (no step
\* changes the board or solvedBoard) a closed modal stays closed.
C19_SolveKeepsModalClosed ==
  /\ [](SolveSucceeded => ~ui.showCompletionModal /\ ~last.onComplete)
  /\ [][(/\ ui.solvedBoard = <<ui.board>>
         /\ ~ui.showCompletionModal
         /\ ui'.board = ui.board
         /\ ui'.solvedBoard = ui.solvedBoard)
        => ~ui'.showCompletionModal]_vars

\* Solve has succeeded on a puzzle and shows a complete, conflict-free
\* board that the completion effect would accept, with the modal closed
C19_Witness ==
  /\ SolveSucceeded
  /\ checkCompletion(ui.board)
  /\ ui.originalBoard # <<>>
  /\ ui.board # ui.originalBoard[1]
  /\ ~ui.showCompletionModal

----------------------------------------------------------------------------
(* Properties of fetchPuzzle and loadNewPuzzle *)

\* b is a 9x9 board
IsNineByNine(b) ==
  DOMAIN b = 0 .. 8 /\ \A i \in 0 .. 8 : DOMAIN b[i] = 0 .. 8

\* the grid the response carries, if it carries one
SentGrid == net.json[1].grids[1]

CarriesGrid ==
  /\ net.kind = "http"
  /\ net.ok
  /\ net.json # <<>>
  /\ net.json[1].newboard
  /\ net.json[1].grids # <<>>

\* the grid is an array of 81 values
SentFlat == SentGrid.t = "array" /\ Len(SentGrid.items) = 81

\* the grid is an array of rows (at least the nine that are read)
SentNested ==
  /\ SentGrid.t = "array"
  /\ Len(SentGrid.items) >= 9
  /\ SentGrid.items[1].t = "array"

\* the value sent for cell (i, j), "absent" if there is none
SentValue(i, j) ==
  IF SentFlat THEN SentGrid.items[i * 9 + j + 1]
  ELSE IF SentGrid.items[i + 1].t = "array" /\
          j < Len(SentGrid.items[i + 1].items)
       THEN SentGrid.items[i + 1].items[j + 1]
       ELSE [t |-> "absent"]

FetchSettled == fpc \in {"resolved", "done"}

\* C20: fetchPuzzle never rejects.  On a network error, a non-OK response
\* or a body that holds neither a flat grid of 81 values nor a nested grid
\* of nine rows it resolves to the fallback puzzle; otherwise it resolves
\* to a 9x9 board in which every value sent as 0 or null, or not sent, is
\* "." and every digit sent is that digit.  Every loadNewPuzzle that has
\* set isLoading ends with isLoading = false and a 9x9 board.
C20_FetchAlwaysYieldsBoard ==
  /\ [](fpc # "rejected")
  /\ [](FetchSettled =>
          /\ IsNineByNine(fres[1])
          /\ IF CarriesGrid /\ (SentFlat \/ SentNested)
             THEN \A i \in 0 .. 8, j \in 0 .. 8 :
                    LET v == SentValue(i, j)
                    IN fres[1][i][j] =
                         IF v.t = "number" /\ v.n # 0
                         THEN DigitStr[v.n] ELSE "."
             ELSE fres[1] = FallbackBoard)
  /\ ui.isLoading ~> (/\ ~ui.isLoading
                      /\ fpc = "done"
                      /\ ui.board = fres[1]
                      /\ IsNineByNine(ui.board))

\* a load has ended on a nested grid with null values and cut rows: the
\* board on screen is not the fallback and ends its rows with "."
C20_Witness ==
  /\ fpc = "done"
  /\ ~ui.isLoading
  /\ CarriesGrid
  /\ SentNested
  /\ \E i \in 0 .. 8 : Len(SentGrid.items[i + 1].items) < 9
  /\ \E i \in 0 .. 8, j \in 0 .. 8 : SentValue(i, j).t = "null"
  /\ ui.board # FallbackBoard
  /\ \A i \in 0 .. 8 : ui.board[i][8] = "."

----------------------------------------------------------------------------
(* Properties of the component's state as a whole *)

\* C21: in every reachable state of the board component the board has
\* exactly 9 rows of 9 cells and every cell is either "." or one of the
\* digits "1".."9".
C21_BoardCellsWellFormed ==
  /\ IsNineByNine(ui.board)
  /\ \A p \in Cells : Val(ui.board, p) \in Digits \cup {"."}

\* C22: in every reachable state in which an original board exists, every
\* cell marked given in originalCells holds on the board exactly the value
\* it has in originalBoard, under every interleaving of user edits, Solve
\* (applied by a timer after the click), New Puzzle fetch completion,
\* initialBoard changes, Reset and Clear All.
C22_GivenCellsHoldOriginalValues ==
  ui.originalBoard # <<>> =>
    \A p \in Cells :
      ui.originalCells[p[1]][p[2]] =>
        Val(ui.board, p) = Val(ui.originalBoard[1], p)

----------------------------------------------------------------------------
(* Further properties of solve *)

\* the k-th cell (k in 0..8) of table row u's unit: row u, column u or
\* block u
UnitCell(unit, u, k) ==
  CASE unit = "row" -> <<u, k>>
    [] unit = "col" -> <<k, u>>
    [] OTHER -> <<(u \div BlockSize) * BlockSize + (k \div BlockSize),
                  (u % BlockSize) * BlockSize + (k % BlockSize)>>

\* the digits flagged in the table row arr[u]
Flagged(arr, u) == {DigitStr[d] : d \in {e \in 1 .. 9 : arr[u][e]}}

\* the digits held by the cells of unit u
Held(unit, u) == {Val(board, UnitCell(unit, u, k)) : k \in Idx} \cap Digits

\* arr[u][d] is true iff a cell of unit u holds digit d
FlagsMatch(arr, unit) == \A u \in Idx : Flagged(arr, u) = Held(unit, u)

\* C23: at every point of a solve call (after initializeTracking and after
\* every placement and every undo) the tracker is the occupancy of the
\* board: rows[r][d] is true iff some cell of row r holds d, and likewise
\* cols[c][d] for columns and blocks[b][d] for the blocks
\* b = floor(r/3)*3 + floor(c/3); when solve returns false the tracker
\* equals its state right after initialization.
C23_TrackerIsBoardOccupancy ==
  /\ pc # "idle" => /\ FlagsMatch(rows, "row")
                     /\ FlagsMatch(cols, "col")
                     /\ FlagsMatch(blocks, "block")
  /\ Returned(FALSE) =>
       /\ rows = initializeTracking(rows, board0, "row")
       /\ cols = initializeTracking(cols, board0, "col")
       /\ blocks = initializeTracking(blocks, board0, "block")

\* C23 witness: a search that placed and undid digits has failed, and the
\* row table is again what initializeTracking made of the board
C23_Witness ==
  /\ Returned(FALSE)
  /\ touched
  /\ rows = initializeTracking(rows, board0, "row")
  /\ \E u \in Idx : \E d \in 1 .. 9 : rows[u][d] /\ ~cols[u][d]

\* marks, after the digits 1..9 and the loop's exit value 10, for a call
\* that has returned false and for one that has returned true
ReturnedFalse == LastNum + 2

ReturnedTrue == LastNum + 3

\* the choices made so far: the loop variable of every active call of
\* solveHelper (0 before its loop starts), followed by the outcome of the
\* call that has just returned
Trail ==
  [i \in 1 .. Len(stack) |-> stack[i].num] \o
  (IF pc = "ret"
   THEN <<IF retval THEN ReturnedTrue ELSE ReturnedFalse>>
   ELSE <<>>)

\* a comes before b in lexicographic order
LexLess(a, b) ==
  \E k \in 1 .. Len(b) :
     /\ k <= Len(a) + 1
     /\ k = Len(a) + 1 \/ a[k] < b[k]
     /\ \A i \in 1 .. (k - 1) : a[i] = b[i]

\* C24: solve terminates on every 9x9 board of "." / digit cells: the
\* search eventually returns true or false, never loops, and never
\* revisits the same (cell, digit) choice under the same prefix of choices:
\* every step of the search moves the trail of choices forward in
\* lexicographic order.
C24_SolveTerminates ==
  /\ <>(pc = "done")
  /\ [][pc' # "done" => LexLess(Trail, Trail')]_vars

\* C24 witness: the search over the 51 empty cells of the fallback puzzle
\* has returned
C24_Witness ==
  /\ pc = "done"
  /\ board0 = FallbackBoard
  /\ touched
  /\ stack = <<>>
  /\ EmptyCells(board) = {}

----------------------------------------------------------------------------
(* A puzzle of the user's own: Clear All empties the board ("useful for   *)
(* custom puzzles"), and the user types a grid cell by cell                *)

\* the operations of one session: the last cell typed into the loaded
\* puzzle, Clear All, and the 81 cells of the user's grid
MaxTyped == 83

\* the grids the user copies from
CustomGrids == {SolvedGrid, AltGrid}

\* the user types the next cell of the grid, in reading order
TypeCustomCell ==
  /\ Ready /\ OnScreen
  /\ last.n < MaxTyped
  /\ EmptyCells(ui.board) # {}
  /\ \E g \in CustomGrids :
       LET p == FirstOf(EmptyCells(ui.board))
       IN CellChange(p[1], p[2], Val(g, p))
  /\ UNCHANGED <<uiFrame, initialBoard, timers, fetches, js>>

\* Clear All, pressed on a board that has been worked on
ClearForCustom ==
  /\ Ready /\ OnScreen
  /\ last.n < MaxTyped
  /\ ui.board # EmptyBoard
  /\ ClearAll
  /\ UNCHANGED <<uiFrame, initialBoard, timers, fetches, js>>

NextCustom == FetchResolved \/ TypeCustomCell \/ ClearForCustom

SpecCustom == InitUi /\ [][NextCustom]_vars

----------------------------------------------------------------------------
(* Properties of win detection and of the completion flags *)

\* C25: automatic win detection fires once per puzzle: for each puzzle on
\* the board (the period since the last New Puzzle load, initialBoard
\* change, Reset or Clear All) the first user edit that makes the board
\* complete and conflict-free invokes onComplete and opens the completion
\* modal, and neither happens a second time for that puzzle.
C25_WinDetectedOncePerPuzzle ==
  /\ [](last.fired <= 1)
  /\ [][(/\ CellChangeStep
         /\ last.fired = 0
         /\ ~checkCompletion(ui.board)
         /\ checkCompletion(ui'.board))
        => (last'.onComplete /\ ui'.showCompletionModal)]_vars

----------------------------------------------------------------------------
(* The two validity checks side by side: isValidSudoku and                 *)
(* isCompleteAndValid of the solver module, checkIllegalMove and           *)
(* checkCompletion of the utilities, applied to one board                  *)

\* isValidSudoku(board)
RunIsValidSudoku ==
  /\ fnOut.fn = "none"
  /\ fnOut' = [fn |-> "isValidSudoku", val |-> isValidSudoku(board)]
  /\ UNCHANGED <<board, solverVars, utilVars, fnArgs, uiVars, fetchVars>>

\* isCompleteAndValid(board)
RunIsCompleteAndValid ==
  /\ fnOut.fn = "none"
  /\ fnOut' = [fn |-> "isCompleteAndValid", val |-> isCompleteAndValid(board)]
  /\ UNCHANGED <<board, solverVars, utilVars, fnArgs, uiVars, fetchVars>>

NextValidity ==
  \/ RunCheckIllegalMove
  \/ RunCheckCompletion
  \/ RunIsValidSudoku
  \/ RunIsCompleteAndValid

SpecValidity == InitChecks /\ [][NextValidity]_vars

\* C26: the two independently coded validity checks agree on every board
\* the application can hold (cells ".", "" or "1".."9"): isValidSudoku is
\* true iff checkIllegalMove reports no conflict, and isCompleteAndValid
\* is true iff checkCompletion is true.
C26_ValidityChecksAgree ==
  /\ (fnOut.fn = "isValidSudoku" /\ "illegal" \in upc) =>
       (fnOut.val <=> Len(conflicts) = 0)
  /\ (fnOut.fn = "isCompleteAndValid" /\ "completion" \in upc) =>
       (fnOut.val <=> completion)

\* handleValidateSolution has just reported a complete and correct board
CheckedCorrect ==
  /\ last.op = "check"
  /\ last.message = "Congratulations! Board is complete and correct!"

\* C27: whenever Check Solution reports the board as complete and correct
\* (message "Congratulations! Board is complete and correct!", isCompleted
\* set), the board is complete and conflict-free: checkCompletion(board)
\* is true.
C27_CheckedCorrectIsComplete ==
  CheckedCorrect => (ui.isCompleted /\ checkCompletion(ui.board))

\* C28: in every reachable state, isCompleted = true implies that the
\* board displayed is complete and conflict-free (checkCompletion(board)
\* is true): an edit that empties or changes a cell after completion does
\* not leave isCompleted set on an incomplete or conflicting board.
C28_CompletedMeansComplete ==
  ui.isCompleted => checkCompletion(ui.board)

\* the validation panel is shown
PanelShown ==
  /\ ui.showValidation
  /\ ui.validationStats # <<>>
  /\ ui.solvedBoard # <<>>

\* C29: whenever the validation panel is shown (showValidation true,
\* validationStats and solvedBoard non-null), validationStats equals
\* getValidationStats(board, solvedBoard, originalCells) for the board
\* displayed, so the statistics never disagree with the per-cell
\* highlighting after further edits.
C29_ShownStatsAreCurrent ==
  PanelShown =>
    ui.validationStats[1] =
      getValidationStats(ui.board, ui.solvedBoard[1], ui.originalCells)

\* C30: when an initialBoard is supplied, once every pending puzzle fetch
\* has settled the loaded puzzle (board givens, originalCells and
\* originalBoard) is the supplied initialBoard unless the user has since
\* pressed New Puzzle or Clear All: a fetch started earlier that settles
\* right after initialBoard was applied, with nothing pressed in between,
\* does not overwrite it.
C30_InitialBoardSurvivesFetch ==
  [][(/\ initialBoard # <<>>
      /\ initialBoard' = initialBoard
      /\ last.op = "initialBoard"
      /\ last'.op = "loaded"
      /\ fetches' = 0)
     => (/\ ui'.originalBoard = initialBoard
         /\ ui'.originalCells = GivenMask(initialBoard[1])
         /\ \A p \in Cells :
              ui'.originalCells[p[1]][p[2]] =>
                Val(ui'.board, p) = Val(initialBoard[1], p))]_vars

====
